---- MODULE Spec2Model ----
(***************************************************************************)
(* A model of googlecloudsdk/core/metrics.py: the in-process collector of  *)
(* anonymous usage (GA) and latency (CSI) metrics and its hand-off to the  *)
(* detached reporter process.                                              *)
(*                                                                         *)
(* Python values are represented uniformly as sequences of strings:        *)
(*   - a str is the sequence of its characters ('ab' is <<"a","b">>);      *)
(*   - None, True and False are the one-token sequences below, which no    *)
(*     str can equal because every element of a str is a single character. *)
(* A time in seconds (a float in the source) is an integer count of        *)
(* half-milliseconds, so that the rounding of _GetTimeMillis is exercised. *)
(***************************************************************************)
EXTENDS Integers, Sequences, FiniteSets, TLC

VARIABLES
  _disabled_cache,  \* _MetricsCollector._disabled_cache: None, True or False
  _instance,        \* _MetricsCollector._instance: <<>> (None) or <<collector>>
  env,              \* what the process reads from its surroundings: os.environ,
                    \* properties.VALUES, config.INSTALLATION_CONFIG, the host name
  clock,            \* the last reading of time.time(), in half-milliseconds
  analytics_cid,    \* the identity file at analytics_cid_path: None (absent) or its text
  temp_files,       \* the temporary files created by ReportMetrics, in creation order
  popen,            \* the reporter processes launched, in launch order
  exited,           \* the interpreter ran its exit handlers
  pc,               \* position in the scripted end-to-end scenario (SpecE2E only)
  call,             \* observation: the last call made, and how it ended
  obs               \* observation: identity-file accesses, constructions, gate evaluations

vars == <<_disabled_cache, _instance, env, clock, analytics_cid, temp_files, popen,
          exited, pc, call, obs>>

None == <<"None">>
True == <<"True">>
False == <<"False">>

(***************************************************************************)
(* Bounds of the model.                                                    *)
(***************************************************************************)
MaxTime == 2      \* the clock runs from 0 to MaxTime half-milliseconds
MaxCalls == 2     \* calls of the public API before the process exits (Spec)
MaxChanges == 2   \* changes of the policy inputs in mid-process (SpecGate)
MaxEvents == 2    \* checkpoints recorded on one timer (SpecTimer)
MaxSteps == 4     \* method calls made on the collector (SpecFlush)

(***************************************************************************)
(* String constants of the source (lines 26-38) and of its literals.       *)
(***************************************************************************)
_GA_ENDPOINT == <<"h","t","t","p","s",":","/","/","s","s","l",".","g","o","o","g","l","e","-","a","n","a","l","y","t","i","c","s",".","c","o","m","/","c","o","l","l","e","c","t">>
_GA_TID == <<"U","A","-","3","6","0","3","7","3","3","5","-","2">>
_GA_INSTALLS_CATEGORY == <<"I","n","s","t","a","l","l","s">>
_GA_COMMANDS_CATEGORY == <<"C","o","m","m","a","n","d","s">>
_GA_HELP_CATEGORY == <<"H","e","l","p">>
_GA_ERROR_CATEGORY == <<"E","r","r","o","r">>
_GA_EXECUTIONS_CATEGORY == <<"E","x","e","c","u","t","i","o","n","s">>
_CSI_ENDPOINT == <<"h","t","t","p","s",":","/","/","c","s","i",".","g","s","t","a","t","i","c",".","c","o","m","/","c","s","i">>
_CSI_ID == <<"c","l","o","u","d","_","s","d","k">>
_CSI_LOAD_EVENT == <<"l","o","a","d">>
_CSI_RUN_EVENT == <<"r","u","n">>
_CSI_TOTAL_EVENT == <<"t","o","t","a","l">>

S_unknown == <<"u","n","k","n","o","w","n">>
S_None == <<"N","o","n","e">>
S_True == <<"T","r","u","e">>
S_False == <<"F","a","l","s","e">>
S_POST == <<"P","O","S","T">>
S_GET == <<"G","E","T">>
S_Google == <<"G","o","o","g","l","e">>
S_External == <<"E","x","t","e","r","n","a","l">>
S_google_com == <<".","g","o","o","g","l","e",".","c","o","m">>
S_event == <<"e","v","e","n","t">>
S_CloudSDK == <<"C","l","o","u","d","S","D","K","/">>
S_reporter == <<"m","e","t","r","i","c","s","_","r","e","p","o","r","t","e","r",".","p","y">>
K_action == <<"a","c","t","i","o","n">>
K_rt == <<"r","t">>
K_s == <<"s">>
K_v == <<"v">>
K_rls == <<"r","l","s">>
K_ec == <<"e","c">>
K_ea == <<"e","a">>
K_el == <<"e","l">>
K_ev == <<"e","v">>
K_cd11 == <<"c","d","1","1">>
K_tid == <<"t","i","d">>
K_cid == <<"c","i","d">>
K_t == <<"t">>
K_cd1 == <<"c","d","1">>
K_cd2 == <<"c","d","2">>
K_cd3 == <<"c","d","3">>
K_cd4 == <<"c","d","4">>

(***************************************************************************)
(* What the collaborators hand to this module (config, platforms, uuid,    *)
(* hashlib): fixed values of the surroundings, and the inputs of the calls.*)
(***************************************************************************)
CLOUD_SDK_VERSION == <<"0",".","9">>
UserAgentFragment == <<"(","L","i","n","u","x",")">>
LibraryRoot == <<"/","l","i","b">>
\* uuid.uuid4().hex: 32 lowercase hexadecimal characters
Uuid4Hex == <<"0","1","2","3","4","5","6","7","8","9","a","b","c","d","e","f","0","1","2","3","4","5","6","7","8","9","a","b","c","d","e","f">>
\* an identity file written by an earlier run or by hand: returned verbatim
StoredCid == <<"c",",","1">>
ProjectP == <<"p">>
ProjectQ == <<"q","-","1">>
\* hashlib.sha1(project_id).hexdigest(), tabulated for the project ids of the model
Sha1Hex(project_id) ==
  IF project_id = ProjectP
  THEN <<"5","1","6","b","9","7","8","3","f","c","a","5","1","7","e","e","c","b","d","1","d","0","6","4","d","a","2","d","1","6","5","3","1","0","b","1","9","7","5","9">>
  ELSE <<"4","3","0","8","b","e","5","6","e","2","f","0","3","6","4","3","b","b","f","0","0","5","0","1","d","b","7","5","9","0","3","b","e","5","e","c","f","8","9","9">>

PathList == <<"c","o","m","p","u","t","e",".","i","n","s","t","a","n","c","e","s",".","l","i","s","t">>
PathAB == <<"a","-","b",".","c">>
Version10 == <<"1",".","0">>
ModeH == <<"-","h">>
HostInternal == <<"a",".","g","o","o","g","l","e",".","c","o","m">>
HostExternal == <<"h",".","c","o","m">>
\* an exception whose class is exceptions.ValueError, and an object whose
\* __class__ cannot be inspected
ExcValueError == [inspectable |-> TRUE, module |-> <<"e","x","c","e","p","t","i","o","n","s">>, name |-> <<"V","a","l","u","e","E","r","r","o","r">>]
ExcOpaque == [inspectable |-> FALSE, module |-> <<>>, name |-> <<>>]

(***************************************************************************)
(* Python's string operations, as the source uses them.                    *)
(***************************************************************************)
\* s.replace(old, new) for one-character old and new
Replace(s, old, new) == [i \in 1..Len(s) |-> IF s[i] = old THEN new ELSE s[i]]

\* sep.join(parts)
RECURSIVE Join(_, _)
Join(sep, parts) ==
  IF Len(parts) = 0 THEN <<>>
  ELSE IF Len(parts) = 1 THEN parts[1]
  ELSE parts[1] \o sep \o Join(sep, Tail(parts))

\* s.endswith(suffix)
EndsWith(s, suffix) ==
  /\ Len(s) >= Len(suffix)
  /\ SubSeq(s, Len(s) - Len(suffix) + 1, Len(s)) = suffix

DigitChars == <<"0","1","2","3","4","5","6","7","8","9">>

\* str(n) of a non-negative int
RECURSIVE NatToStr(_)
NatToStr(n) ==
  IF n < 10 THEN <<DigitChars[n + 1]>>
  ELSE NatToStr(n \div 10) \o <<DigitChars[(n % 10) + 1]>>

\* str(n) of an int
IntToStr(n) == IF n < 0 THEN <<"-">> \o NatToStr(0 - n) ELSE NatToStr(n)

\* str(v), which urlencode applies to every key and value
PyStr(v) ==
  IF v = None THEN S_None
  ELSE IF v = True THEN S_True
  ELSE IF v = False THEN S_False
  ELSE v

\* urllib.always_safe: the characters quote() leaves alone
AlwaysSafe == {"a","b","c","d","e","f","g","h","i","j","k","l","m","n","o","p","q","r","s","t","u","v","w","x","y","z","A","B","C","D","E","F","G","H","I","J","K","L","M","N","O","P","Q","R","S","T","U","V","W","X","Y","Z","0","1","2","3","4","5","6","7","8","9","_",".","-"}

\* '%XX' of a character outside always_safe (the ASCII punctuation of the model)
PercentEscape(c) ==
  CASE c = "," -> <<"%","2","C">>
    [] c = "/" -> <<"%","2","F">>
    [] c = ":" -> <<"%","3","A">>
    [] c = "(" -> <<"%","2","8">>
    [] c = ")" -> <<"%","2","9">>
    [] c = "%" -> <<"%","2","5">>
    [] c = "&" -> <<"%","2","6">>
    [] c = "=" -> <<"%","3","D">>
    [] c = "+" -> <<"%","2","B">>
    [] c = "?" -> <<"%","3","F">>

\* urllib.quote_plus(s): safe characters kept, ' ' to '+', the rest escaped
RECURSIVE quote_plus(_)
quote_plus(s) ==
  IF Len(s) = 0 THEN <<>>
  ELSE (IF s[1] \in AlwaysSafe THEN <<s[1]>>
        ELSE IF s[1] = " " THEN <<"+">>
        ELSE PercentEscape(s[1])) \o quote_plus(Tail(s))

\* urllib.urlencode(query) of a list of (key, value) pairs
urlencode(query) ==
  Join(<<"&">>, [i \in 1..Len(query) |->
                   quote_plus(PyStr(query[i][1])) \o <<"=">> \o quote_plus(PyStr(query[i][2]))])

(***************************************************************************)
(* _GAEvent, _GetTimeMillis, _TimedEvent and _CommandTimer (lines 41-83).  *)
(***************************************************************************)
_GAEvent(category, action, label, value) ==
  [category |-> category, action |-> action, label |-> label, value |-> value]

\* int(round(time_secs * 1000)): Python 2's round() rounds halves away from
\* zero; time_secs is given in half-milliseconds
_GetTimeMillis(time_secs) ==
  IF time_secs >= 0 THEN (time_secs + 1) \div 2
  ELSE 0 - ((1 - time_secs) \div 2)

_TimedEvent(name, now) == [name |-> name, time_millis |-> _GetTimeMillis(now)]

_CommandTimer(start_time) ==
  [start |-> _GetTimeMillis(start_time), events |-> <<>>, action |-> S_unknown]

\* a slip: only the dots are rewritten
SetAction_DotsOnly(timer, action) ==
  [timer EXCEPT !.action = Replace(action, ".", ",")]

SetAction(timer, action) ==
  [timer EXCEPT !.action = Replace(Replace(action, ".", ","), "-", "_")]

Event(timer, name, now) ==
  [timer EXCEPT !.events = Append(@, _TimedEvent(name, now))]

\* a slip: the checkpoint's own time is reported, not its offset from the start
GetCSIParams_Absolute(timer) ==
  LET response_times ==
        [i \in 1..Len(timer.events) |->
           timer.events[i].name \o <<".">> \o IntToStr(timer.events[i].time_millis)]
  IN  << <<K_action, timer.action>>, <<K_rt, Join(<<",">>, response_times)>> >>

GetCSIParams(timer) ==
  LET response_times ==
        [i \in 1..Len(timer.events) |->
           timer.events[i].name \o <<".">>
             \o IntToStr(timer.events[i].time_millis - timer.start)]
  IN  << <<K_action, timer.action>>, <<K_rt, Join(<<",">>, response_times)>> >>

(***************************************************************************)
(* The state a call works on, and how a call ends.  W packs the variables  *)
(* into one record so that the methods below are functions from state to   *)
(* state; an action unpacks the record a call leaves (Store).              *)
(***************************************************************************)
W ==
  [cache |-> _disabled_cache, inst |-> _instance, env |-> env, cid |-> analytics_cid,
   files |-> temp_files, procs |-> popen, obs |-> obs]

\* a call that returned ret, and a call that raised an exception
Ok(w, ret) == [w |-> w, exc |-> FALSE, ret |-> ret, logged |-> FALSE]
Raise(w) == [w |-> w, exc |-> TRUE, ret |-> None, logged |-> FALSE]

\* the collector object behind a non-None reference
Coll(w) == w.inst[1]
SetColl(w, c) == [w EXCEPT !.inst = <<c>>]

\* the failures of collaborators that a call may meet (at most one per call)
GateFailures == {"preference"}
InitFailures == {"cid_read", "cid_write", "clock"}
EventFailures == {"project", "hash"}
FlushFailures == {"tmpfile", "pickle", "popen"}

(***************************************************************************)
(* _MetricsCollector._IsDisabled (lines 106-120).                          *)
(***************************************************************************)
\* a slip: the installation default consulted before the user's preference
DisablePolicy_DefaultFirst(argcomplete, preference, installation_default) ==
  IF argcomplete THEN True
  ELSE IF installation_default = True THEN True
  ELSE IF preference = None THEN installation_default
  ELSE preference

\* lines 111-119: the value the first evaluation stores in _disabled_cache
DisablePolicy(argcomplete, preference, installation_default) ==
  IF argcomplete THEN True
  ELSE IF preference = None THEN installation_default
  ELSE preference

\* a slip: the cache is written but never consulted
_IsDisabled_NoMemo(w, fail) ==
  LET w1 == [w EXCEPT !.obs.consulted = TRUE] IN
  IF ~w.env.ARGCOMPLETE /\ fail = "preference" THEN Raise(w1)
  ELSE LET w2 == [w1 EXCEPT
                    !.cache = DisablePolicy(w.env.ARGCOMPLETE,
                                            w.env.disable_usage_reporting,
                                            w.env.installation_default),
                    !.obs.evals = @ + 1,
                    !.obs.policy = <<[ARGCOMPLETE |-> w.env.ARGCOMPLETE,
                                      preference |-> w.env.disable_usage_reporting,
                                      installation_default |-> w.env.installation_default]>>]
       IN  Ok(w2, w2.cache)

_IsDisabled(w, fail) ==
  IF w.cache # None THEN Ok(w, w.cache)
  ELSE LET w1 == [w EXCEPT !.obs.consulted = TRUE] IN
       IF ~w.env.ARGCOMPLETE /\ fail = "preference" THEN Raise(w1)
       ELSE LET w2 == [w1 EXCEPT
                         !.cache = DisablePolicy(w.env.ARGCOMPLETE,
                                                 w.env.disable_usage_reporting,
                                                 w.env.installation_default),
                         !.obs.evals = @ + 1,
                         !.obs.policy = <<[ARGCOMPLETE |-> w.env.ARGCOMPLETE,
                                           preference |-> w.env.disable_usage_reporting,
                                           installation_default |-> w.env.installation_default]>>]
            IN  Ok(w2, w2.cache)

(***************************************************************************)
(* _MetricsCollector._GetCID (lines 155-175).                              *)
(***************************************************************************)
_GetCID(w, fail) ==
  LET w1 == [w EXCEPT !.obs.cid_io = @ \cup {"exists"}]
      w2 == [w1 EXCEPT !.obs.cid_io = @ \cup {"read"}]
      w3 == [(IF w.cid # None THEN w2 ELSE w1) EXCEPT !.obs.cid_io = @ \cup {"write"}]
  IN  IF w.cid # None /\ fail = "cid_read" THEN Raise(w2)
      ELSE IF w.cid # None /\ w.cid # <<>> THEN Ok(w2, w.cid)
      \* open(uuid_path, 'w') creates or truncates the file before the write
      ELSE IF fail = "cid_write" THEN Raise([w3 EXCEPT !.cid = <<>>])
      ELSE Ok([w3 EXCEPT !.cid = Uuid4Hex], Uuid4Hex)

(***************************************************************************)
(* _MetricsCollector.__init__ (lines 122-153).  oid is the identity of the *)
(* object constructed: the ordinal of the construction.                    *)
(***************************************************************************)
__init__(w, now, fail) ==
  LET user_agent == S_CloudSDK \o CLOUD_SDK_VERSION \o <<" ">> \o UserAgentFragment
      install_type == IF EndsWith(w.env.hostname, S_google_com) THEN S_Google
                      ELSE S_External
      c == _GetCID(w, fail)
  IN  IF c.exc THEN Raise(c.w)
      ELSE IF fail = "clock" THEN Raise(c.w)
      ELSE Ok([c.w EXCEPT !.obs.constructed = @ + 1, !.obs.started = now,
                          !.obs.recorded = <<>>, !.obs.action = <<>>],
              [oid |-> c.w.obs.constructed + 1,
               _user_agent |-> user_agent,
               _project_ids |-> [p \in {} |-> None],
               _ga_params |-> << <<K_v, <<"1">> >>,
                                 <<K_tid, _GA_TID>>,
                                 <<K_cid, c.ret>>,
                                 <<K_t, S_event>>,
                                 <<K_cd1, w.env.release_channel>>,
                                 <<K_cd2, install_type>>,
                                 <<K_cd3, w.env.environment>>,
                                 <<K_cd4, w.env.interactive>> >>,
               _csi_params |-> << <<K_s, _CSI_ID>>,
                                  <<K_v, <<"2">> >>,
                                  <<K_rls, CLOUD_SDK_VERSION>> >>,
               _timer |-> _CommandTimer(now),
               _metrics |-> <<>>])

(***************************************************************************)
(* _MetricsCollector.GetCollectorIfExists and GetCollector (lines 92-104). *)
(***************************************************************************)
GetCollectorIfExists(w) == Ok(w, w.inst)

\* a slip: the collector is handed out whatever the gate says
GetCollector_NoGate(w, now, fail) ==
  LET d == _IsDisabled(w, fail) IN
  IF d.exc THEN Raise(d.w)
  ELSE IF d.w.inst = <<>>
       THEN LET c == __init__(d.w, now, fail) IN
            IF c.exc THEN Raise(c.w)
            ELSE Ok([c.w EXCEPT !.inst = <<c.ret>>], <<c.ret>>)
       ELSE Ok(d.w, d.w.inst)

\* a slip: a collector is constructed at every call
GetCollector_Reconstruct(w, now, fail) ==
  LET d == _IsDisabled(w, fail) IN
  IF d.exc THEN Raise(d.w)
  ELSE IF d.ret = True THEN Ok(d.w, <<>>)
  ELSE LET c == __init__(d.w, now, fail) IN
       IF c.exc THEN Raise(c.w)
       ELSE Ok([c.w EXCEPT !.inst = <<c.ret>>], <<c.ret>>)

GetCollector(w, now, fail) ==
  LET d == _IsDisabled(w, fail) IN
  IF d.exc THEN Raise(d.w)
  ELSE IF d.ret = True THEN Ok(d.w, <<>>)
  ELSE IF d.w.inst = <<>>
       THEN LET c == __init__(d.w, now, fail) IN
            IF c.exc THEN Raise(c.w)
            ELSE Ok([c.w EXCEPT !.inst = <<c.ret>>], <<c.ret>>)
       ELSE Ok(d.w, d.w.inst)

(***************************************************************************)
(* The collector's methods (lines 177-258), on the collector of w.         *)
(***************************************************************************)
\* a slip: the digest is computed anew for every event
_GetProjectIDHash_NoCache(w, fail) ==
  IF fail = "project" THEN Raise(w)
  ELSE LET project_id == w.env.project IN
       IF project_id = None \/ project_id = <<>> THEN Ok(w, None)
       ELSE IF fail = "hash" THEN Raise(w)
       ELSE Ok([w EXCEPT !.obs.hashed = Append(@, project_id)], Sha1Hex(project_id))

_GetProjectIDHash(w, fail) ==
  IF fail = "project" THEN Raise(w)
  ELSE LET project_id == w.env.project
           ids == Coll(w)._project_ids
           hashed_id == IF project_id \in DOMAIN ids THEN ids[project_id] ELSE None
       IN  IF project_id = None \/ project_id = <<>> THEN Ok(w, None)
           ELSE IF hashed_id # None /\ hashed_id # <<>> THEN Ok(w, hashed_id)
           ELSE IF fail = "hash" THEN Raise(w)
           ELSE Ok([SetColl(w, [Coll(w) EXCEPT !._project_ids =
                                  [p \in DOMAIN ids \cup {project_id} |->
                                     IF p = project_id THEN Sha1Hex(project_id)
                                     ELSE ids[p]]])
                      EXCEPT !.obs.hashed = Append(@, project_id)],
                   Sha1Hex(project_id))

\* a slip: only the start time and the checkpoints are reset
StartTimer_KeepAction(w, start_time) ==
  [SetColl(w, [Coll(w) EXCEPT !._timer = [@ EXCEPT !.start = _GetTimeMillis(start_time),
                                                   !.events = <<>>]])
     EXCEPT !.obs.started = start_time, !.obs.recorded = <<>>, !.obs.action = <<>>]

StartTimer(w, start_time) ==
  [SetColl(w, [Coll(w) EXCEPT !._timer = _CommandTimer(start_time)])
     EXCEPT !.obs.started = start_time, !.obs.recorded = <<>>, !.obs.action = <<>>]

RecordTimedEvent(w, name, now, fail) ==
  IF fail = "clock" THEN Raise(w)
  ELSE Ok([SetColl(w, [Coll(w) EXCEPT !._timer = Event(@, name, now)])
             EXCEPT !.obs.recorded = Append(@, [name |-> name, at |-> now])],
          None)

SetTimerAction(w, action) ==
  [SetColl(w, [Coll(w) EXCEPT !._timer = SetAction(@, action)])
     EXCEPT !.obs.action = <<action>> \o (IF @ = <<>> THEN <<>> ELSE <<@[1]>>)]

CollectCSIMetric(w) ==
  LET params == GetCSIParams(Coll(w)._timer) \o Coll(w)._csi_params
      data == urlencode(params)
  IN  SetColl(w, [Coll(w) EXCEPT !._metrics =
                    Append(@, <<_CSI_ENDPOINT \o <<"?">> \o data, S_GET, None,
                                Coll(w)._user_agent>>)])

\* ('ev', event.value): the value is an int, rendered by the str() of urlencode
CollectGAMetric(w, event, fail) ==
  LET params == << <<K_ec, event.category>>,
                   <<K_ea, event.action>>,
                   <<K_el, event.label>>,
                   <<K_ev, IntToStr(event.value)>> >>
      h == _GetProjectIDHash(w, fail)
  IN  IF h.exc THEN Raise(h.w)
      ELSE LET all == (IF h.ret # None /\ h.ret # <<>>
                       THEN Append(params, <<K_cd11, h.ret>>) ELSE params)
                        \o Coll(h.w)._ga_params
               data == urlencode(all)
           IN  Ok(SetColl(h.w, [Coll(h.w) EXCEPT !._metrics =
                                  Append(@, <<_GA_ENDPOINT, S_POST, data,
                                              Coll(h.w)._user_agent>>)]),
                  None)

\* a slip: the queue is swapped for an empty one before the dump
ReportMetrics_ClearFirst(w, fail) ==
  IF Coll(w)._metrics = <<>> THEN Ok(w, None)
  ELSE IF fail = "tmpfile" THEN Raise(w)
  ELSE IF fail = "pickle"
       THEN Raise([SetColl(w, [Coll(w) EXCEPT !._metrics = <<>>])
                     EXCEPT !.files = Append(@, [pickled |-> <<>>, complete |-> FALSE])])
  ELSE LET w1 == [SetColl(w, [Coll(w) EXCEPT !._metrics = <<>>])
                    EXCEPT !.files = Append(@, [pickled |-> Coll(w)._metrics,
                                                complete |-> TRUE])]
           python_path == IF w.env.PYTHONPATH # None /\ w.env.PYTHONPATH # <<>>
                          THEN w.env.PYTHONPATH \o <<":">> \o LibraryRoot
                          ELSE LibraryRoot
       IN  IF fail = "popen" THEN Raise(w1)
           ELSE Ok([w1 EXCEPT !.procs = Append(@, [script |-> S_reporter,
                                                   metrics_file |-> Len(w1.files),
                                                   PYTHONPATH |-> python_path])],
                   None)

\* a slip: the queue is not cleared after the dump
ReportMetrics_KeepQueue(w, fail) ==
  IF Coll(w)._metrics = <<>> THEN Ok(w, None)
  ELSE IF fail = "tmpfile" THEN Raise(w)
  ELSE IF fail = "pickle"
       THEN Raise([w EXCEPT !.files = Append(@, [pickled |-> <<>>, complete |-> FALSE])])
  ELSE LET w1 == [w EXCEPT !.files = Append(@, [pickled |-> Coll(w)._metrics,
                                                complete |-> TRUE])]
           python_path == IF w.env.PYTHONPATH # None /\ w.env.PYTHONPATH # <<>>
                          THEN w.env.PYTHONPATH \o <<":">> \o LibraryRoot
                          ELSE LibraryRoot
       IN  IF fail = "popen" THEN Raise(w1)
           ELSE Ok([w1 EXCEPT !.procs = Append(@, [script |-> S_reporter,
                                                   metrics_file |-> Len(w1.files),
                                                   PYTHONPATH |-> python_path])],
                   None)

\* The temporary file holds the pickle of the list; a file's name is its
\* position in temp_files.  complete is FALSE when pickle.dump did not finish.
ReportMetrics(w, fail) ==
  IF Coll(w)._metrics = <<>> THEN Ok(w, None)
  ELSE IF fail = "tmpfile" THEN Raise(w)
  ELSE IF fail = "pickle"
       THEN Raise([w EXCEPT !.files = Append(@, [pickled |-> <<>>, complete |-> FALSE])])
  ELSE LET w1 == [SetColl(w, [Coll(w) EXCEPT !._metrics = <<>>])
                    EXCEPT !.files = Append(@, [pickled |-> Coll(w)._metrics,
                                                complete |-> TRUE])]
           python_path == IF w.env.PYTHONPATH # None /\ w.env.PYTHONPATH # <<>>
                          THEN w.env.PYTHONPATH \o <<":">> \o LibraryRoot
                          ELSE LibraryRoot
       IN  IF fail = "popen" THEN Raise(w1)
           ELSE Ok([w1 EXCEPT !.procs = Append(@, [script |-> S_reporter,
                                                   metrics_file |-> Len(w1.files),
                                                   PYTHONPATH |-> python_path])],
                   None)

(***************************************************************************)
(* The module-level functions (lines 261-387).                             *)
(***************************************************************************)
\* '{0}.{1}'.format(a, b)
Format2(a, b) == PyStr(a) \o <<".">> \o PyStr(b)
\* '{0}.{1}.{2}'.format(a, b, c)
Format3(a, b, c) == PyStr(a) \o <<".">> \o PyStr(b) \o <<".">> \o PyStr(c)

\* a slip: the label (the version) is made part of every timer action
_CollectGAMetricAndSetTimerAction_WithLabel(w, category, action, label, value, now, fail) ==
  LET g == GetCollector(w, now, fail) IN
  IF g.exc THEN Raise(g.w)
  ELSE IF g.ret = <<>> THEN Ok(g.w, None)
  ELSE LET m == CollectGAMetric(g.w, _GAEvent(category, action, label, value), fail) IN
       IF m.exc THEN Raise(m.w)
       ELSE IF category = _GA_INSTALLS_CATEGORY THEN Ok(m.w, None)
       ELSE Ok(SetTimerAction(m.w, Format3(category, action, label)), None)

\* a slip: Installs events set the timer action like Commands events
_CollectGAMetricAndSetTimerAction_InstallsToo(w, category, action, label, value, now, fail) ==
  LET g == GetCollector(w, now, fail) IN
  IF g.exc THEN Raise(g.w)
  ELSE IF g.ret = <<>> THEN Ok(g.w, None)
  ELSE LET m == CollectGAMetric(g.w, _GAEvent(category, action, label, value), fail) IN
       IF m.exc THEN Raise(m.w)
       ELSE IF category = _GA_ERROR_CATEGORY \/ category = _GA_HELP_CATEGORY
            THEN Ok(SetTimerAction(m.w, Format3(category, action, label)), None)
       ELSE Ok(SetTimerAction(m.w, Format2(category, action)), None)

_CollectGAMetricAndSetTimerAction(w, category, action, label, value, now, fail) ==
  LET g == GetCollector(w, now, fail) IN
  IF g.exc THEN Raise(g.w)
  ELSE IF g.ret = <<>> THEN Ok(g.w, None)
  ELSE LET m == CollectGAMetric(g.w, _GAEvent(category, action, label, value), fail) IN
       IF m.exc THEN Raise(m.w)
       ELSE IF category = _GA_COMMANDS_CATEGORY \/ category = _GA_EXECUTIONS_CATEGORY
            THEN Ok(SetTimerAction(m.w, Format2(category, action)), None)
       ELSE IF category = _GA_ERROR_CATEGORY \/ category = _GA_HELP_CATEGORY
            THEN Ok(SetTimerAction(m.w, Format3(category, action, label)), None)
       ELSE Ok(m.w, None)

\* a slip: the Wrapper logs and raises again
CaptureAndLogException_Reraise(r) ==
  IF r.exc THEN [w |-> r.w, exc |-> TRUE, ret |-> None, logged |-> TRUE]
  ELSE r

\* the decorator: Wrapper returns func's result, or logs and returns None
CaptureAndLogException(r) ==
  IF r.exc THEN [w |-> r.w, exc |-> FALSE, ret |-> None, logged |-> TRUE]
  ELSE r

\* lines 289-295: the function Shutdown as written, before any decorator
\* a slip: the shutdown path asks for the collector with GetCollector
ShutdownBody_GetCollector(w, now, fail) ==
  LET g == GetCollector(w, now, fail) IN
  IF g.exc THEN Raise(g.w)
  ELSE IF g.ret = <<>> THEN Ok(g.w, None)
  ELSE LET e == RecordTimedEvent(g.w, _CSI_TOTAL_EVENT, now, fail) IN
       IF e.exc THEN Raise(e.w)
       ELSE ReportMetrics(CollectCSIMetric(e.w), fail)

\* a slip: the flush is made before the latency report is enqueued
ShutdownBody_FlushFirst(w, now, fail) ==
  LET collector == GetCollectorIfExists(w).ret IN
  IF collector = <<>> THEN Ok(w, None)
  ELSE LET e == RecordTimedEvent(w, _CSI_TOTAL_EVENT, now, fail) IN
       IF e.exc THEN Raise(e.w)
       ELSE LET r == ReportMetrics(e.w, fail) IN
            IF r.exc THEN Raise(r.w) ELSE Ok(CollectCSIMetric(r.w), None)

ShutdownBody(w, now, fail) ==
  LET collector == GetCollectorIfExists(w).ret IN
  IF collector = <<>> THEN Ok(w, None)
  ELSE LET e == RecordTimedEvent(w, _CSI_TOTAL_EVENT, now, fail) IN
       IF e.exc THEN Raise(e.w)
       ELSE ReportMetrics(CollectCSIMetric(e.w), fail)

\* line 288: atexit.register is the inner decorator, so the function it
\* registers (and returns unchanged) is the undecorated one
ExitHandler(w, now, fail) == ShutdownBody(w, now, fail)

\* line 287: the module-level name Shutdown is bound to the Wrapper
Shutdown(w, now, fail) == CaptureAndLogException(ShutdownBody(w, now, fail))

Installs(w, component_id, version_string, now, fail) ==
  CaptureAndLogException(
    _CollectGAMetricAndSetTimerAction(w, _GA_INSTALLS_CATEGORY, component_id,
                                      version_string, 0, now, fail))

Commands(w, command_path, version_string, now, fail) ==
  CaptureAndLogException(
    _CollectGAMetricAndSetTimerAction(
      w, _GA_COMMANDS_CATEGORY, command_path,
      IF version_string = None \/ version_string = <<>> THEN S_unknown
      ELSE version_string,
      0, now, fail))

Help(w, command_path, mode, now, fail) ==
  CaptureAndLogException(
    _CollectGAMetricAndSetTimerAction(w, _GA_HELP_CATEGORY, command_path, mode,
                                      0, now, fail))

Error(w, command_path, exc, now, fail) ==
  CaptureAndLogException(
    _CollectGAMetricAndSetTimerAction(
      w, _GA_ERROR_CATEGORY, command_path,
      IF exc.inspectable THEN Format2(exc.module, exc.name) ELSE S_unknown,
      0, now, fail))

Executions(w, command_name, version_string, now, fail) ==
  CaptureAndLogException(
    _CollectGAMetricAndSetTimerAction(
      w, _GA_EXECUTIONS_CATEGORY, command_name,
      IF version_string = None \/ version_string = <<>> THEN S_unknown
      ELSE version_string,
      0, now, fail))

Started(w, start_time, now, fail) ==
  CaptureAndLogException(
    LET g == GetCollector(w, now, fail) IN
    IF g.exc THEN Raise(g.w)
    ELSE IF g.ret = <<>> THEN Ok(g.w, None)
    ELSE Ok(StartTimer(g.w, start_time), None))

\* now is the clock as the constructor reads it (if it runs), later as the
\* checkpoint reads it
Checkpoint(w, name, now, later, fail) ==
  LET g == GetCollector(w, now, fail) IN
  IF g.exc THEN Raise(g.w)
  ELSE IF g.ret = <<>> THEN Ok(g.w, None)
  ELSE RecordTimedEvent(g.w, name, later, fail)

Loaded(w, now, later, fail) ==
  CaptureAndLogException(Checkpoint(w, _CSI_LOAD_EVENT, now, later, fail))

Ran(w, now, later, fail) ==
  CaptureAndLogException(Checkpoint(w, _CSI_RUN_EVENT, now, later, fail))

(***************************************************************************)
(* The process: its initial states and the calls made on it.               *)
(***************************************************************************)
Tristate == {None, True, False}

Env(argcomplete, preference, installation_default, project, hostname) ==
  [ARGCOMPLETE |-> argcomplete, PYTHONPATH |-> None,
   disable_usage_reporting |-> preference,
   installation_default |-> installation_default,
   project |-> project, hostname |-> hostname,
   release_channel |-> <<"r","a","p","i","d">>, environment |-> None,
   interactive |-> False]

\* op: the function called; raised: an exception reached the caller; logged:
\* the Wrapper caught and logged one; ret: the identity of the collector
\* returned (0: None); disabled: the value a gate query returned
NoCall ==
  [op |-> "none", raised |-> FALSE, logged |-> FALSE, ret |-> 0, disabled |-> None]

NoObs ==
  [cid_io |-> {},          \* the accesses made to the identity file
   constructed |-> 0,      \* the collectors constructed
   consulted |-> FALSE,    \* the last call read the inputs of the disable policy
   evals |-> 0,            \* the evaluations of the policy that stored a result
   policy |-> <<>>,        \* the inputs as the storing evaluation read them
   hashed |-> <<>>,        \* the project ids digested, in order
   calls |-> 0,            \* the calls made
   changes |-> 0,          \* the changes made to the policy inputs
   started |-> 0,          \* the start time the current timer was given
   recorded |-> <<>>,      \* the checkpoints recorded on it: name and clock reading
   action |-> <<>>]        \* the last action given to SetTimerAction on it, and
                           \* the one given before it

\* a fresh interpreter: nothing cached, nothing constructed, nothing written
Fresh ==
  /\ _disabled_cache = None
  /\ _instance = <<>>
  /\ clock = 0
  /\ temp_files = <<>>
  /\ popen = <<>>
  /\ exited = FALSE
  /\ call = NoCall
  /\ obs = NoObs

Init ==
  /\ Fresh
  /\ pc = "api"
  /\ \E a \in BOOLEAN, p \in Tristate, d \in {True, False} :
       env = Env(a, p, d, ProjectP, HostExternal)
  /\ analytics_cid \in {None, StoredCid}

\* the state at the start of a call
Start == [W EXCEPT !.obs.consulted = FALSE]

\* the identity of the collector GetCollector returned (0 for None)
Oid(r) == IF r.exc \/ r.ret = <<>> THEN 0 ELSE r.ret[1].oid

\* the program's variables as the call that ended in r leaves them
Store(r) ==
  /\ _disabled_cache' = r.w.cache
  /\ _instance' = r.w.inst
  /\ env' = r.w.env
  /\ analytics_cid' = r.w.cid
  /\ temp_files' = r.w.files
  /\ popen' = r.w.procs

\* a call of the public API that ended in r; in Spec every call reads the
\* clock as it stands and takes half a millisecond
Done(op, r) ==
  /\ Store(r)
  /\ obs' = [r.w.obs EXCEPT !.calls = @ + 1]
  /\ call' = [NoCall EXCEPT !.op = op, !.raised = r.exc, !.logged = r.logged]
  /\ clock' = clock + 1
  /\ UNCHANGED <<exited, pc>>

CanCall == ~exited /\ obs.calls < MaxCalls

RecordFailures == {"none"} \cup GateFailures \cup InitFailures \cup EventFailures
TimerFailures == {"none"} \cup GateFailures \cup InitFailures

CallInstalls ==
  /\ CanCall
  /\ \E fail \in RecordFailures :
       Done("Installs", Installs(Start, PathAB, Version10, clock, fail))

CallCommands ==
  /\ CanCall
  /\ \E fail \in RecordFailures :
       Done("Commands", Commands(Start, PathList, Version10, clock, fail))

CallHelp ==
  /\ CanCall
  /\ \E fail \in RecordFailures :
       Done("Help", Help(Start, PathAB, ModeH, clock, fail))

CallError ==
  /\ CanCall
  /\ \E fail \in RecordFailures, exc \in {ExcValueError, ExcOpaque} :
       Done("Error", Error(Start, PathAB, exc, clock, fail))

CallExecutions ==
  /\ CanCall
  /\ \E fail \in RecordFailures :
       Done("Executions", Executions(Start, PathAB, None, clock, fail))

CallStarted ==
  /\ CanCall
  /\ \E fail \in TimerFailures :
       Done("Started", Started(Start, 0, clock, fail))

CallLoaded ==
  /\ CanCall
  /\ \E fail \in TimerFailures :
       Done("Loaded", Loaded(Start, clock, clock, fail))

CallRan ==
  /\ CanCall
  /\ \E fail \in TimerFailures :
       Done("Ran", Ran(Start, clock, clock, fail))

\* an explicit call of the module-level Shutdown
CallShutdown ==
  /\ CanCall
  /\ \E fail \in {"none", "clock"} \cup FlushFailures :
       Done("Shutdown", Shutdown(Start, clock, fail))

\* normal process exit: the interpreter runs the registered exit handler
AtExit ==
  /\ ~exited
  /\ \E fail \in {"none", "clock"} \cup FlushFailures :
       LET r == ExitHandler(Start, clock, fail) IN
       /\ Store(r)
       /\ obs' = r.w.obs
       /\ call' = [NoCall EXCEPT !.op = "atexit", !.raised = r.exc, !.logged = r.logged]
       /\ clock' = clock + 1
       /\ exited' = TRUE
       /\ UNCHANGED pc

Next ==
  \/ CallInstalls
  \/ CallCommands
  \/ CallHelp
  \/ CallError
  \/ CallExecutions
  \/ CallStarted
  \/ CallLoaded
  \/ CallRan
  \/ CallShutdown
  \/ AtExit

Spec == Init /\ [][Next]_vars

(***************************************************************************)
(* SpecGate: the disable gate and the singleton, queried while the inputs  *)
(* of the policy change in mid-process.                                    *)
(***************************************************************************)
InitGate ==
  /\ Fresh
  /\ pc = "gate"
  /\ \E a \in BOOLEAN, p \in Tristate, d \in {True, False} :
       env = Env(a, p, d, None, HostExternal)
  /\ analytics_cid \in {None, <<>>, StoredCid}

QueryIsDisabled ==
  /\ obs.calls < MaxCalls
  /\ \E fail \in {"none"} \cup GateFailures :
       LET r == _IsDisabled(Start, fail) IN
       /\ Store(r)
       /\ obs' = [r.w.obs EXCEPT !.calls = @ + 1]
       /\ call' = [NoCall EXCEPT !.op = "_IsDisabled", !.raised = r.exc,
                                 !.disabled = r.ret]
       /\ UNCHANGED <<clock, exited, pc>>

QueryGetCollector ==
  /\ obs.calls < MaxCalls
  /\ \E fail \in {"none"} \cup GateFailures \cup InitFailures :
       LET r == GetCollector(Start, clock, fail) IN
       /\ Store(r)
       /\ obs' = [r.w.obs EXCEPT !.calls = @ + 1]
       /\ call' = [NoCall EXCEPT !.op = "GetCollector", !.raised = r.exc,
                                 !.ret = Oid(r)]
       /\ UNCHANGED <<clock, exited, pc>>

\* the surroundings change one input of the policy
ChangeInput(field, value) ==
  /\ obs.changes < MaxChanges
  /\ env[field] # value
  /\ env' = [env EXCEPT ![field] = value]
  /\ obs' = [obs EXCEPT !.changes = @ + 1, !.consulted = FALSE]
  /\ call' = NoCall
  /\ UNCHANGED <<_disabled_cache, _instance, clock, analytics_cid, temp_files,
                 popen, exited, pc>>

SetMarker == \E b \in BOOLEAN : ChangeInput("ARGCOMPLETE", b)

SetPreference == \E p \in Tristate : ChangeInput("disable_usage_reporting", p)

SetInstallationDefault == \E d \in {True, False} : ChangeInput("installation_default", d)

NextGate ==
  \/ QueryIsDisabled
  \/ QueryGetCollector
  \/ SetMarker
  \/ SetPreference
  \/ SetInstallationDefault

SpecGate == InitGate /\ [][NextGate]_vars

(***************************************************************************)
(* The state after a first GetCollector() that succeeded, in surroundings  *)
(* e with identity file f, the clock reading t.                            *)
(***************************************************************************)
Constructed(e, f, t) ==
  GetCollector([cache |-> None, inst |-> <<>>, env |-> e, cid |-> f,
                files |-> <<>>, procs |-> <<>>, obs |-> NoObs], t, "none").w

InitWith(w, t) ==
  /\ _disabled_cache = w.cache
  /\ _instance = w.inst
  /\ env = w.env
  /\ analytics_cid = w.cid
  /\ temp_files = w.files
  /\ popen = w.procs
  /\ obs = w.obs
  /\ clock = t
  /\ exited = FALSE
  /\ call = NoCall

\* a call of a method of the collector that ended in r, the clock reading t
Method(op, r, t) ==
  /\ Store(r)
  /\ obs' = r.w.obs
  /\ call' = [NoCall EXCEPT !.op = op, !.raised = r.exc]
  /\ clock' = t
  /\ UNCHANGED <<exited, pc>>

(***************************************************************************)
(* SpecTimer: the timer of a constructed collector, driven through the     *)
(* collector's methods while the clock advances.                           *)
(***************************************************************************)
ActionA == <<"a",".","b","-","c">>
ActionB == <<"-",".","x",",","y","_","z">>
ActionC == <<"C","o","m","m","a","n","d","s",".","c","o","m","p","u","t","e",".","i","n","s","t","a","n","c","e","s",".","l","i","s","t">>
ActionInputs == {<<>>, ActionA, ActionB, ActionC}
CheckpointNames == {_CSI_LOAD_EVENT, _CSI_RUN_EVENT, _CSI_TOTAL_EVENT}

InitTimer ==
  /\ pc = "timer"
  /\ \E t \in 0..MaxTime :
       InitWith(Constructed(Env(FALSE, None, False, None, HostExternal), StoredCid, t), t)

TimerStart ==
  \E start_time \in 0..MaxTime :
    Method("StartTimer", Ok(StartTimer(Start, start_time), None), clock)

TimerEvent ==
  /\ Len(_instance[1]._timer.events) < MaxEvents
  /\ \E name \in CheckpointNames, t \in clock..MaxTime, fail \in {"none", "clock"} :
       Method("RecordTimedEvent", RecordTimedEvent(Start, name, t, fail), t)

TimerAction ==
  \E action \in ActionInputs :
    Method("SetTimerAction", Ok(SetTimerAction(Start, action), None), clock)

NextTimer ==
  \/ TimerStart
  \/ TimerEvent
  \/ TimerAction

SpecTimer == InitTimer /\ [][NextTimer]_vars

(***************************************************************************)
(* SpecFlush: the queue of a constructed collector, filled and flushed     *)
(* through the collector's methods.                                        *)
(***************************************************************************)
InitFlush ==
  /\ pc = "flush"
  /\ \E j \in {None, ProjectP}, pp \in {None, <<"/","u">>} :
       InitWith(Constructed([Env(FALSE, None, False, j, HostExternal)
                               EXCEPT !.PYTHONPATH = pp], StoredCid, 0), 0)

\* a call of a method of the collector, counted
Step(op, r) ==
  /\ Store(r)
  /\ obs' = [r.w.obs EXCEPT !.calls = @ + 1]
  /\ call' = [NoCall EXCEPT !.op = op, !.raised = r.exc]
  /\ UNCHANGED <<clock, exited, pc>>

FlushEvents ==
  {_GAEvent(_GA_COMMANDS_CATEGORY, PathList, Version10, 0),
   _GAEvent(_GA_HELP_CATEGORY, PathAB, ModeH, 0)}

EnqueueEvent ==
  /\ obs.calls < MaxSteps
  /\ \E event \in FlushEvents, fail \in {"none"} \cup EventFailures :
       Step("CollectGAMetric", CollectGAMetric(Start, event, fail))

EnqueueLatencyReport ==
  /\ obs.calls < MaxSteps
  /\ Step("CollectCSIMetric", Ok(CollectCSIMetric(Start), None))

Flush ==
  /\ obs.calls < MaxSteps
  /\ \E fail \in {"none"} \cup FlushFailures :
       Step("ReportMetrics", ReportMetrics(Start, fail))

\* the configured project changes between two calls
SetProject ==
  /\ call.op # "none"
  /\ \E j \in {None, ProjectP, ProjectQ} : ChangeInput("project", j)

NextFlush ==
  \/ EnqueueEvent
  \/ EnqueueLatencyReport
  \/ Flush
  \/ SetProject

SpecFlush == InitFlush /\ [][NextFlush]_vars

(***************************************************************************)
(* SpecE2E: the end-to-end scenario of the specification, step by step, in *)
(* every enabled surroundings: Commands("compute.instances.list", "1.0"),  *)
(* then the shutdown path.                                                 *)
(***************************************************************************)
InitE2E ==
  /\ Fresh
  /\ pc = "start"
  /\ \E p \in {None, False}, j \in {None, ProjectP, ProjectQ},
        h \in {HostExternal, HostInternal} :
       env = Env(FALSE, p, False, j, h)
  /\ analytics_cid \in {None, <<>>, StoredCid}

Scenario(from, to, op, r, t) ==
  /\ pc = from
  /\ pc' = to
  /\ Store(r)
  /\ obs' = [r.w.obs EXCEPT !.calls = @ + 1]
  /\ call' = [NoCall EXCEPT !.op = op, !.raised = r.exc, !.logged = r.logged]
  /\ clock' = t
  /\ UNCHANGED exited

E2ECommands ==
  \E t \in clock..MaxTime :
    Scenario("start", "recorded", "Commands",
             Commands(Start, PathList, Version10, t, "none"), t)

E2ECheckpoint ==
  \E t \in clock..MaxTime :
    Scenario("recorded", "total", "RecordTimedEvent",
             RecordTimedEvent(Start, _CSI_TOTAL_EVENT, t, "none"), t)

E2ELatencyReport ==
  Scenario("total", "enqueued", "CollectCSIMetric",
           Ok(CollectCSIMetric(Start), None), clock)

E2EFlush ==
  Scenario("enqueued", "flushed", "ReportMetrics", ReportMetrics(Start, "none"), clock)

NextE2E ==
  \/ E2ECommands
  \/ E2ECheckpoint
  \/ E2ELatencyReport
  \/ E2EFlush

SpecE2E == InitE2E /\ [][NextE2E]_vars

(***************************************************************************)
(* Properties of the public API and of process exit (Spec).                *)
(***************************************************************************)
PublicOps ==
  {"Installs", "Commands", "Help", "Error", "Executions", "Started", "Loaded", "Ran"}

\* collection is disabled, as the specification words it: the shell-completion
\* marker is present, or the user opted out, or no preference is set and the
\* installation default is disabled
CollectionDisabled ==
  \/ env.ARGCOMPLETE
  \/ env.disable_usage_reporting = True
  \/ env.disable_usage_reporting = None /\ env.installation_default = True

\* C1: when collection is disabled, whatever recording calls are made and
\* whether or not the shutdown hook has run, no collector is constructed (so
\* no request is ever queued), the identity file is never looked for, read or
\* written, no temporary file is created and no reporter process is launched.
C1_DisabledDoesNothing ==
  CollectionDisabled =>
    /\ _instance = <<>>
    /\ obs.constructed = 0
    /\ obs.cid_io = {}
    /\ temp_files = <<>>
    /\ popen = <<>>

\* the marker overrides an explicit opt-in; two recording calls were made and
\* the exit handler has run
C1_Witness ==
  /\ env.ARGCOMPLETE
  /\ env.disable_usage_reporting = False
  /\ obs.calls >= 2
  /\ exited

\* C3: a call of Installs, Commands, Help, Error, Executions, Started, Loaded
\* or Ran never ends with an exception reaching the caller, whichever
\* collaborator fails inside it.
C3_RecordingNeverRaises == call.op \in PublicOps => ~call.raised

\* Loaded constructed the collector, the write of the identity file failed,
\* and the Wrapper caught and logged the exception
C3_Witness ==
  /\ call.op = "Loaded"
  /\ call.logged
  /\ ~call.raised
  /\ analytics_cid = <<>>
  /\ _instance = <<>>

\* C4: no exception escapes the function that was registered as the exit
\* handler.  (Violated: the function registered is the undecorated one.)
C4_ExitHandlerSwallows == call.op = "atexit" => ~call.raised

(***************************************************************************)
(* Properties of the gate and of the singleton (SpecGate).                 *)
(***************************************************************************)
\* C6: GetCollector returns None whenever the gate says disabled; otherwise
\* at most one collector is ever constructed, the stored instance is that
\* first collector for ever after (never replaced, never cleared), and every
\* call that returns, returns it.
C6_SingleCollector ==
  /\ obs.constructed <= 1
  /\ (obs.constructed = 0) <=> (_instance = <<>>)
  /\ _instance # <<>> => _instance[1].oid = 1 /\ _disabled_cache = False
  /\ (call.op = "GetCollector" /\ ~call.raised) =>
       /\ _disabled_cache # None
       /\ _disabled_cache = True => call.ret = 0
       /\ _disabled_cache = False => call.ret = 1 /\ _instance # <<>>

\* the second call of GetCollector returned the collector the first constructed
C6_Witness ==
  /\ call.op = "GetCollector"
  /\ ~call.raised
  /\ call.ret = 1
  /\ obs.calls >= 2
  /\ obs.constructed = 1
  /\ ~obs.consulted

\* C7: the policy is evaluated at most once per process: the evaluation that
\* completes stores its result; from then on the stored result never changes,
\* no call reads the marker, the preference or the installation default
\* again, and every gate query returns the stored result, even when those
\* inputs have changed since.
C7_EvaluatedOnce ==
  /\ [](/\ obs.evals <= 1
        /\ (call.op = "_IsDisabled" /\ ~call.raised) =>
             /\ _disabled_cache # None
             /\ call.disabled = _disabled_cache)
  /\ [][_disabled_cache # None =>
          /\ _disabled_cache' = _disabled_cache
          /\ ~(obs.consulted)']_vars

\* a gate query made after the inputs changed returned the stored result,
\* which is the opposite of what the inputs now give
C7_Witness ==
  /\ call.op = "_IsDisabled"
  /\ ~call.raised
  /\ ~obs.consulted
  /\ obs.changes > 0
  /\ call.disabled = True
  /\ ~CollectionDisabled

\* the inputs as the storing evaluation read them
PolicyRead == obs.policy[1]

\* C8: the stored result follows strict precedence: disabled when the marker
\* was present, whatever the preference and the default; otherwise the user's
\* preference when it was set, whatever the default; otherwise the
\* installation default.
C8_Precedence ==
  _disabled_cache # None =>
    /\ PolicyRead.ARGCOMPLETE => _disabled_cache = True
    /\ (~PolicyRead.ARGCOMPLETE /\ PolicyRead.preference # None) =>
         _disabled_cache = PolicyRead.preference
    /\ (~PolicyRead.ARGCOMPLETE /\ PolicyRead.preference = None) =>
         _disabled_cache = PolicyRead.installation_default

\* an explicit opt-in decided against a disabling installation default
C8_Witness ==
  /\ _disabled_cache = False
  /\ ~PolicyRead.ARGCOMPLETE
  /\ PolicyRead.preference = False
  /\ PolicyRead.installation_default = True

(***************************************************************************)
(* Reading a request back: what the receiving end sees in a query string.  *)
(***************************************************************************)
\* the pieces of s between the occurrences of the character c (none for '')
RECURSIVE SplitOn(_, _)
SplitOn(s, c) ==
  IF s = <<>> THEN <<>>
  ELSE LET at == {i \in 1..Len(s) : s[i] = c} IN
       IF at = {} THEN <<s>>
       ELSE LET k == CHOOSE i \in at : \A j \in at : i <= j IN
            <<SubSeq(s, 1, k - 1)>>
              \o (IF k = Len(s) THEN << <<>> >> ELSE SplitOn(SubSeq(s, k + 1, Len(s)), c))

\* the character a %XX escape stands for
Unescape(hi, lo) ==
  CASE <<hi, lo>> = <<"2","C">> -> ","
    [] <<hi, lo>> = <<"2","F">> -> "/"
    [] <<hi, lo>> = <<"3","A">> -> ":"
    [] <<hi, lo>> = <<"2","8">> -> "("
    [] <<hi, lo>> = <<"2","9">> -> ")"
    [] <<hi, lo>> = <<"2","5">> -> "%"
    [] <<hi, lo>> = <<"2","6">> -> "&"
    [] <<hi, lo>> = <<"3","D">> -> "="
    [] <<hi, lo>> = <<"2","B">> -> "+"
    [] <<hi, lo>> = <<"3","F">> -> "?"

RECURSIVE Unquote(_)
Unquote(s) ==
  IF s = <<>> THEN <<>>
  ELSE IF s[1] = "%" THEN <<Unescape(s[2], s[3])>> \o Unquote(SubSeq(s, 4, Len(s)))
  ELSE IF s[1] = "+" THEN <<" ">> \o Unquote(Tail(s))
  ELSE <<s[1]>> \o Unquote(Tail(s))

\* the (key, value) pairs of the pieces key=value, decoded
RECURSIVE ParsePairs(_)
ParsePairs(parts) ==
  IF parts = <<>> THEN <<>>
  ELSE << <<Unquote(SplitOn(parts[1], "=")[1]), Unquote(SplitOn(parts[1], "=")[2])>> >>
         \o ParsePairs(Tail(parts))

\* the (key, value) pairs of a query string, decoded
ParseQuery(s) == ParsePairs(SplitOn(s, "&"))

\* the values the pairs q give to key, in order
RECURSIVE Values(_, _)
Values(q, key) ==
  IF q = <<>> THEN <<>>
  ELSE (IF q[1][1] = key THEN <<q[1][2]>> ELSE <<>>) \o Values(Tail(q), key)

\* s starts with prefix
StartsWith(s, prefix) ==
  Len(s) >= Len(prefix) /\ SubSeq(s, 1, Len(prefix)) = prefix

(***************************************************************************)
(* Properties of the flush (SpecFlush).                                    *)
(***************************************************************************)
\* C2: a ReportMetrics that meets no failing collaborator, called with an
\* empty queue, creates no file, launches no process and changes nothing;
\* called with N >= 1 queued requests it creates exactly one temporary file,
\* holding the N requests in the order they were queued, launches exactly one
\* reporter process, given that file, and leaves the queue empty.
C2_Flush ==
  [][(call'.op = "ReportMetrics" /\ obs'.calls = obs.calls + 1 /\ ~call'.raised) =>
       IF _instance[1]._metrics = <<>>
       THEN UNCHANGED <<_disabled_cache, _instance, env, analytics_cid, temp_files, popen>>
       ELSE /\ temp_files' = Append(temp_files, [pickled |-> _instance[1]._metrics,
                                                 complete |-> TRUE])
            /\ Len(popen') = Len(popen) + 1
            /\ SubSeq(popen', 1, Len(popen)) = popen
            /\ popen'[Len(popen')].script = S_reporter
            /\ popen'[Len(popen')].metrics_file = Len(temp_files')
            /\ _instance'[1]._metrics = <<>>
            /\ _instance' = <<[_instance[1] EXCEPT !._metrics = <<>>]>>]_vars

\* two requests were queued and flushed into one file handed to one process,
\* and a second flush, of the empty queue, followed
C2_Witness ==
  /\ call.op = "ReportMetrics"
  /\ ~call.raised
  /\ obs.calls = 4
  /\ Len(temp_files) = 1
  /\ Len(temp_files[1].pickled) = 2
  /\ temp_files[1].pickled[1] # temp_files[1].pickled[2]
  /\ Len(popen) = 1
  /\ _instance[1]._metrics = <<>>

(***************************************************************************)
(* The end-to-end scenario (SpecE2E).                                      *)
(***************************************************************************)
S_DottedAction == <<"C","o","m","m","a","n","d","s",".","c","o","m","p","u","t","e",",","i","n","s","t","a","n","c","e","s",",","l","i","s","t">>
S_CommaAction == <<"C","o","m","m","a","n","d","s",",","c","o","m","p","u","t","e",",","i","n","s","t","a","n","c","e","s",",","l","i","s","t">>

\* the queue holds exactly 2 requests: first a POST to the analytics endpoint
\* whose category is Commands, action compute.instances.list and label 1.0;
\* then a GET of the latency endpoint whose action parameter is `action` and
\* whose rt parameter has a total pair
QueueBeforeFlush(action) ==
  LET queue == _instance[1]._metrics
      ga == ParseQuery(queue[1][3])
      url == SplitOn(queue[2][1], "?")
      csi == ParseQuery(url[2])
  IN  /\ Len(queue) = 2
      /\ queue[1][1] = _GA_ENDPOINT
      /\ queue[1][2] = S_POST
      /\ Values(ga, K_ec) = <<_GA_COMMANDS_CATEGORY>>
      /\ Values(ga, K_ea) = <<PathList>>
      /\ Values(ga, K_el) = <<Version10>>
      /\ Len(url) = 2
      /\ url[1] = _CSI_ENDPOINT
      /\ queue[2][2] = S_GET
      /\ queue[2][3] = None
      /\ Values(csi, K_action) = <<action>>
      /\ Len(Values(csi, K_rt)) = 1
      /\ \E i \in 1..Len(SplitOn(Values(csi, K_rt)[1], ",")) :
           StartsWith(SplitOn(Values(csi, K_rt)[1], ",")[i],
                      _CSI_TOTAL_EVENT \o <<".">>)

\* C5 as stated: in a fresh, enabled process, after
\* Commands("compute.instances.list", "1.0"), the checkpoint "total" and the
\* enqueue of the latency report, the queue holds exactly 2 requests: the
\* Commands analytics hit (action compute.instances.list, label 1.0) and a
\* latency report whose action equals Commands.compute,instances,list and
\* whose rt has a total checkpoint.
C5_AsStated ==
  pc = "enqueued" => QueueBeforeFlush(S_DottedAction)

\* C5 amended: the same, with the latency report's action equal to
\* Commands,compute,instances,list: the dot joining category and action is
\* rewritten to a comma like every other dot.
C5_EndToEnd ==
  pc = "enqueued" => QueueBeforeFlush(S_CommaAction)

\* the scenario ran in a process with a project configured and no identity
\* file at first, and stands just before the flush
C5_Witness ==
  /\ pc = "enqueued"
  /\ env.project = ProjectP
  /\ analytics_cid = Uuid4Hex
  /\ Len(_instance[1]._metrics) = 2
  /\ clock > 0

(***************************************************************************)
(* Properties of the timer (SpecTimer).                                    *)
(***************************************************************************)
\* C9: the stored action is always the one given last to SetTimerAction on
\* this timer, with every '.' stored as ',' and every '-' as '_' and every
\* other character unchanged ("unknown" while none was given); it never
\* contains '.' or '-'.
C9_TimerAction ==
  LET stored == _instance[1]._timer.action IN
  /\ \A i \in 1..Len(stored) : stored[i] \notin {".", "-"}
  /\ obs.action = <<>> => stored = S_unknown
  /\ obs.action # <<>> =>
       LET given == obs.action[1] IN
       /\ Len(stored) = Len(given)
       /\ \A i \in 1..Len(given) :
            stored[i] = IF given[i] = "." THEN ","
                        ELSE IF given[i] = "-" THEN "_"
                        ELSE given[i]

\* an action with a dot and a hyphen replaced another action on the same timer
C9_Witness ==
  /\ Len(obs.action) = 2
  /\ obs.action[1] = ActionA
  /\ obs.action[2] = ActionC
  /\ call.op = "SetTimerAction"

\* the offset, in milliseconds, of the i-th checkpoint recorded on the timer
Offset(i) == _GetTimeMillis(obs.recorded[i].at) - _GetTimeMillis(obs.started)

\* C10: the rendered rt has exactly one name.offset pair per checkpoint
\* recorded on the timer, in call order; each offset is the checkpoint's
\* recording time in milliseconds minus the timer's start time in
\* milliseconds; the offsets never decrease along the sequence (the clock
\* readings of successive calls do not decrease).
C10_LatencyString ==
  LET params == GetCSIParams(_instance[1]._timer)
      pairs == SplitOn(params[2][2], ",")
  IN  /\ params[2][1] = K_rt
      /\ Len(pairs) = Len(obs.recorded)
      /\ \A i \in 1..Len(pairs) :
           pairs[i] = obs.recorded[i].name \o <<".">> \o IntToStr(Offset(i))
      /\ \A i \in 1..Len(pairs) : \A j \in i..Len(pairs) : Offset(i) <= Offset(j)

\* two checkpoints on a timer restarted with a later start time: the first
\* offset is negative, the second is not
C10_Witness ==
  /\ Len(obs.recorded) = 2
  /\ _GetTimeMillis(obs.started) = 1
  /\ Offset(1) < 0
  /\ Offset(2) = 0
  /\ obs.recorded[1].name # obs.recorded[2].name

(***************************************************************************)
(* _MetricsCollector._GetCID (lines 155-175) statement by statement, run   *)
(* by processes that share the identity file (SpecCid).  Here pc and call  *)
(* are indexed by process: pc[p] is the statement p is about to execute,   *)
(* call[p] holds its local cid, what its last call returned and generated, *)
(* and obs records the history of the file.                                *)
(***************************************************************************)
Procs == {1, 2}
MaxCidCalls == 2

HexChars == <<"0","1","2","3","4","5","6","7","8","9","a","b","c","d","e","f">>

\* a slip: the id is derived from a fixed seed
Uuid4_Fixed(n) == Uuid4Hex

\* the n-th value of uuid.uuid4().hex on the installation: random, so no two alike
Uuid4(n) == [Uuid4Hex EXCEPT ![32] = HexChars[n + 1]]

NoCidCall ==
  [cid |-> None, ret |-> None, raised |-> FALSE, generated |-> None,
   after |-> FALSE,        \* the call started after some call had completed
   n |-> 0]                \* the calls the process has started

InitCid ==
  /\ _disabled_cache = None
  /\ _instance = <<>>
  /\ clock = 0
  /\ temp_files = <<>>
  /\ popen = <<>>
  /\ exited = FALSE
  /\ env = Env(FALSE, None, False, None, HostExternal)
  /\ analytics_cid \in {None, <<>>, StoredCid}
  /\ pc = [p \in Procs |-> "idle"]
  /\ call = [p \in Procs |-> NoCidCall]
  /\ obs = [completed |-> None,     \* what the first completed call returned
            overlap |-> FALSE,      \* two calls have run at the same time
            ids |-> 0,              \* the ids generated
            rewritten |-> FALSE]    \* the file was written after a call completed

\* the part of the state _GetCID never touches
CidFrame == UNCHANGED <<_disabled_cache, _instance, env, clock, temp_files, popen, exited>>

\* a call of _GetCID starts
CidBegin(p) ==
  /\ pc[p] = "idle"
  /\ call[p].n < MaxCidCalls
  /\ pc' = [pc EXCEPT ![p] = "exists"]
  /\ call' = [call EXCEPT ![p] = [NoCidCall EXCEPT !.after = (obs.completed # None),
                                                   !.n = call[p].n + 1]]
  /\ obs' = [obs EXCEPT !.overlap = @ \/ (\E q \in Procs \ {p} : pc[q] # "idle")]
  /\ UNCHANGED analytics_cid
  /\ CidFrame

\* line 164: if os.path.exists(uuid_path)
CidExists(p) ==
  /\ pc[p] = "exists"
  /\ pc' = [pc EXCEPT ![p] = IF analytics_cid # None THEN "read" ELSE "open"]
  /\ UNCHANGED <<analytics_cid, call, obs>>
  /\ CidFrame

\* a slip: the contents read are ignored and an id is always generated
CidRead_Regenerate(p) ==
  /\ pc[p] = "read"
  /\ pc' = [pc EXCEPT ![p] = "open"]
  /\ call' = [call EXCEPT ![p].cid = analytics_cid]
  /\ UNCHANGED <<analytics_cid, obs>>
  /\ CidFrame

\* lines 165-168: read the file; return its contents unless they are empty
CidRead(p) ==
  /\ pc[p] = "read"
  /\ \E fail \in {"none", "cid_read"} :
       IF fail = "cid_read"
       THEN /\ pc' = [pc EXCEPT ![p] = "idle"]
            /\ call' = [call EXCEPT ![p].raised = TRUE]
       ELSE /\ pc' = [pc EXCEPT ![p] = IF analytics_cid # <<>> THEN "return" ELSE "open"]
            /\ call' = [call EXCEPT ![p].cid = analytics_cid]
  /\ UNCHANGED <<analytics_cid, obs>>
  /\ CidFrame

\* lines 170-171: open(uuid_path, 'w') creates the file or truncates it
CidOpen(p) ==
  /\ pc[p] = "open"
  /\ pc' = [pc EXCEPT ![p] = "write"]
  /\ analytics_cid' = <<>>
  /\ obs' = [obs EXCEPT !.rewritten = @ \/ (obs.completed # None)]
  /\ UNCHANGED call
  /\ CidFrame

\* lines 172-173: generate the id and write it at the start of the file
CidWrite(p) ==
  /\ pc[p] = "write"
  /\ \E fail \in {"none", "cid_write"} :
       IF fail = "cid_write"
       THEN /\ pc' = [pc EXCEPT ![p] = "idle"]
            /\ call' = [call EXCEPT ![p].raised = TRUE]
            /\ UNCHANGED <<analytics_cid, obs>>
       ELSE LET cid == Uuid4(obs.ids) IN
            /\ pc' = [pc EXCEPT ![p] = "return"]
            /\ call' = [call EXCEPT ![p].cid = cid, ![p].generated = cid]
            /\ analytics_cid' = cid \o SubSeq(analytics_cid, Len(cid) + 1,
                                              Len(analytics_cid))
            /\ obs' = [obs EXCEPT !.ids = @ + 1,
                                  !.rewritten = @ \/ (obs.completed # None)]
  /\ CidFrame

\* lines 168 and 175: return cid
CidReturn(p) ==
  /\ pc[p] = "return"
  /\ pc' = [pc EXCEPT ![p] = "idle"]
  /\ call' = [call EXCEPT ![p].ret = call[p].cid]
  /\ obs' = [obs EXCEPT !.completed = IF @ = None THEN call[p].cid ELSE @]
  /\ UNCHANGED analytics_cid
  /\ CidFrame

NextCid ==
  \E p \in Procs :
    \/ CidBegin(p)
    \/ CidExists(p)
    \/ CidRead(p)
    \/ CidOpen(p)
    \/ CidWrite(p)
    \/ CidReturn(p)

SpecCid == InitCid /\ [][NextCid]_vars

\* C11: when no two calls of _GetCID ever ran at the same time, once one call
\* has completed the identity file is never written again, and every call
\* that started after it and returns, returns the string the first completed
\* call returned, which is the content of the file.
C11_StableClientId ==
  ~obs.overlap =>
    /\ ~obs.rewritten
    /\ \A p \in Procs :
         (call[p].after /\ call[p].ret # None) =>
           /\ call[p].ret = obs.completed
           /\ call[p].ret = analytics_cid
           /\ call[p].generated = None

\* on a fresh installation process 1 generated the id, and a later call by
\* process 2, overlapping no other, returned that id
C11_Witness ==
  /\ ~obs.overlap
  /\ call[1].generated # None
  /\ call[1].ret = call[1].generated
  /\ call[2].after
  /\ call[2].ret = call[1].generated
  /\ obs.ids = 1

\* C12: nothing orders the statements of two processes running _GetCID: two
\* calls that both generated an id return different ids, each its own, and
\* the file keeps at most one of them.
C12_FirstRunRace ==
  \A p \in Procs : \A q \in Procs \ {p} :
    (call[p].ret # None /\ call[p].generated # None
       /\ call[q].ret # None /\ call[q].generated # None) =>
      /\ call[p].ret = call[p].generated
      /\ call[p].ret # call[q].ret
      /\ (pc[p] = "idle" /\ pc[q] = "idle") =>
           ((analytics_cid = call[p].ret) # (analytics_cid = call[q].ret))

\* on a fresh installation the first calls of the two processes overlapped,
\* both found no usable file, both generated an id and they returned
\* different ids
C12_Witness ==
  /\ obs.overlap
  /\ obs.ids = 2
  /\ \A p \in Procs : call[p].n = 1 /\ pc[p] = "idle" /\ call[p].generated # None
  /\ call[1].ret # None
  /\ call[2].ret # None
  /\ call[1].ret # call[2].ret

(***************************************************************************)
(* The project-hash cache (SpecFlush, with the configured project changing *)
(* between calls).                                                         *)
(***************************************************************************)
\* the values a query string gives to key, decoded, in order
RECURSIVE ParamOf(_, _)
ParamOf(parts, key) ==
  IF parts = <<>> THEN <<>>
  ELSE (IF StartsWith(parts[1], key \o <<"=">>)
        THEN <<Unquote(SubSeq(parts[1], Len(key) + 2, Len(parts[1])))>>
        ELSE <<>>) \o ParamOf(Tail(parts), key)

Param(s, key) == ParamOf(SplitOn(s, "&"), key)

\* the elements of a sequence
Range(q) == {q[i] : i \in 1..Len(q)}

\* C13: no project id is digested twice in one process; an event enqueued
\* while project j is configured carries cd11 = SHA-1(j), computed by that
\* call only if j was never digested before; an event enqueued while no
\* project is configured carries no cd11 and digests nothing.
C13_ProjectHashCache ==
  /\ [](\A i \in 1..Len(obs.hashed) : \A k \in 1..Len(obs.hashed) :
          obs.hashed[i] = obs.hashed[k] => i = k)
  /\ [][(call'.op = "CollectGAMetric" /\ obs'.calls = obs.calls + 1 /\ ~call'.raised) =>
          LET queue == _instance'[1]._metrics
              cd11 == Param(queue[Len(queue)][3], K_cd11)
              j == env.project
          IN  /\ Len(queue) = Len(_instance[1]._metrics) + 1
              /\ IF j = None
                 THEN /\ cd11 = <<>>
                      /\ obs'.hashed = obs.hashed
                 ELSE /\ cd11 = <<Sha1Hex(j)>>
                      /\ obs'.hashed = IF j \in Range(obs.hashed) THEN obs.hashed
                                       ELSE Append(obs.hashed, j)]_vars

\* three events were enqueued under projects p, q-1 and p again: two digests
\* were computed and the first and third events carry the same one
C13_Witness ==
  /\ obs.hashed = <<ProjectP, ProjectQ>>
  /\ env.project = ProjectP
  /\ call.op = "CollectGAMetric"
  /\ Len(_instance[1]._metrics) = 3
  /\ Values(ParseQuery(_instance[1]._metrics[1][3]), K_cd11) = <<Sha1Hex(ProjectP)>>
  /\ Values(ParseQuery(_instance[1]._metrics[2][3]), K_cd11) = <<Sha1Hex(ProjectQ)>>
  /\ Values(ParseQuery(_instance[1]._metrics[3][3]), K_cd11) = <<Sha1Hex(ProjectP)>>

(***************************************************************************)
(* Failures inside the flush (SpecFlush).                                  *)
(***************************************************************************)
\* C14: ReportMetrics returns normally to its caller, also when the creation
\* of the temporary file, the serialization or the launch of the reporter
\* process fails.
C14_FlushReturns ==
  call.op = "ReportMetrics" => ~call.raised

(***************************************************************************)
(* The shutdown path (Spec).                                               *)
(***************************************************************************)
\* the requests waiting in the queue of the collector, if there is one
Queue(inst) == IF inst = <<>> THEN <<>> ELSE inst[1]._metrics

\* request is a latency report
IsLatencyReport(request) ==
  request[2] = S_GET /\ StartsWith(request[1], _CSI_ENDPOINT \o <<"?">>)

\* the pairs of the rt parameter of a latency report
RtPairs(request) ==
  SplitOn(Values(ParseQuery(SplitOn(request[1], "?")[2]), K_rt)[1], ",")

\* the last pair of the rt of a latency report is a total checkpoint
EndsWithTotal(request) ==
  /\ RtPairs(request) # <<>>
  /\ StartsWith(RtPairs(request)[Len(RtPairs(request))], _CSI_TOTAL_EVENT \o <<".">>)

\* every request enqueued so far is in the queue or in one serialized batch:
\* the latency reports among them, by place
LatencyReportsEnqueued ==
  {<<0, i>> : i \in {k \in 1..Len(Queue(_instance)) :
                       IsLatencyReport(Queue(_instance)[k])}}
    \cup UNION {{<<f, i>> : i \in {k \in 1..Len(temp_files[f].pickled) :
                                     IsLatencyReport(temp_files[f].pickled[k])}} :
                f \in 1..Len(temp_files)}

\* C15: whatever public calls are made, an explicit Shutdown and the exit
\* handler included, at most one latency report is ever enqueued, and it is
\* enqueued after a final total checkpoint.
C15_OneLatencyReport ==
  /\ Cardinality(LatencyReportsEnqueued) <= 1
  /\ \A k \in 1..Len(Queue(_instance)) :
       IsLatencyReport(Queue(_instance)[k]) => EndsWithTotal(Queue(_instance)[k])
  /\ \A f \in 1..Len(temp_files) : \A k \in 1..Len(temp_files[f].pickled) :
       IsLatencyReport(temp_files[f].pickled[k]) =>
         EndsWithTotal(temp_files[f].pickled[k])


\* the step is a run of the shutdown path: an explicit Shutdown or the exit handler
ShutdownRuns ==
  \/ call'.op = "Shutdown" /\ obs'.calls = obs.calls + 1
  \/ call'.op = "atexit" /\ exited' /\ ~exited

\* C16: a run of the shutdown path on an existing collector that meets no
\* failure serializes one batch and hands it to one reporter process: the
\* batch is the queue as it was before the run, in order, followed by one
\* latency report whose rt ends with the total checkpoint just recorded; so
\* the batch is not empty and the latency report comes last.  A run cut
\* short by a failure completes no other batch than this one.
C16_ShutdownOrder ==
  [][(ShutdownRuns /\ _instance # <<>>) =>
       LET before == Queue(_instance)
           n == Len(temp_files)
           completed == Len(temp_files') = n + 1 /\ temp_files'[n + 1].complete
           batch == temp_files'[n + 1].pickled
           report == batch[Len(batch)]
       IN  /\ SubSeq(temp_files', 1, n) = temp_files
           /\ Len(temp_files') <= n + 1
           /\ (~call'.raised /\ ~call'.logged) =>
                /\ completed
                /\ Len(popen') = Len(popen) + 1
                /\ popen'[Len(popen')].metrics_file = n + 1
                /\ Queue(_instance') = <<>>
           /\ completed =>
                /\ Len(batch) = Len(before) + 1
                /\ SubSeq(batch, 1, Len(before)) = before
                /\ IsLatencyReport(report)
                /\ EndsWithTotal(report)
                /\ Len(RtPairs(report)) = Len(_instance[1]._timer.events) + 1
                /\ Len(_instance'[1]._timer.events) = Len(_instance[1]._timer.events) + 1]_vars

\* the exit handler ran after an event and a checkpoint: the batch holds the
\* event's hit, then the latency report, with load and total in its rt
C16_Witness ==
  /\ call.op = "atexit"
  /\ ~call.raised
  /\ Len(temp_files) = 1
  /\ Len(popen) = 1
  /\ Len(temp_files[1].pickled) = 2
  /\ ~IsLatencyReport(temp_files[1].pickled[1])
  /\ IsLatencyReport(temp_files[1].pickled[2])
  /\ Len(RtPairs(temp_files[1].pickled[2])) = 2
  /\ EndsWithTotal(temp_files[1].pickled[2])


(***************************************************************************)
(* The timer action derived from the events (Spec).                        *)
(***************************************************************************)
\* s with every '.' as ',' and every '-' as '_'
Normalized(s) ==
  [i \in 1..Len(s) |-> IF s[i] = "." THEN "," ELSE IF s[i] = "-" THEN "_" ELSE s[i]]

\* the category of the hits an entry point enqueues
CategoryOf(op) ==
  CASE op = "Installs" -> _GA_INSTALLS_CATEGORY
    [] op = "Commands" -> _GA_COMMANDS_CATEGORY
    [] op = "Help" -> _GA_HELP_CATEGORY
    [] op = "Error" -> _GA_ERROR_CATEGORY
    [] op = "Executions" -> _GA_EXECUTIONS_CATEGORY

\* the action of the timer of the collector, "unknown" when a collector is yet
\* to be constructed
TimerActionOf(inst) == IF inst = <<>> THEN S_unknown ELSE inst[1]._timer.action

\* the action parameter of a latency report
ReportAction(request) ==
  Values(ParseQuery(SplitOn(request[1], "?")[2]), K_action)

\* the category, action and label of an analytics hit
Hit(request) ==
  LET ga == ParseQuery(request[3]) IN
  [ec |-> Values(ga, K_ec)[1], ea |-> Values(ga, K_ea)[1], el |-> Values(ga, K_el)[1]]

\* C17: an event call that succeeds on an enabled process enqueues one hit of
\* its category; after a Commands or Executions event the timer action is
\* the normalized "<category>.<action>" of that hit, after an Error or Help
\* event the normalized "<category>.<action>.<label>", and an Installs event
\* leaves the timer action as it was.  An event call that fails sets no
\* action.  The latency report enqueued by a run of the shutdown path
\* carries the timer action as it stands then.
C17_ActionPerCategory ==
  [][/\ (call'.op \in {"Installs", "Commands", "Help", "Error", "Executions"}
           /\ obs'.calls = obs.calls + 1 /\ _instance' # <<>>) =>
          IF call'.logged
          THEN TimerActionOf(_instance') = TimerActionOf(_instance)
          ELSE \E hit \in {Hit(Queue(_instance')[Len(Queue(_instance'))])} :
                 /\ Len(Queue(_instance')) = Len(Queue(_instance)) + 1
                 /\ hit.ec = CategoryOf(call'.op)
                 /\ TimerActionOf(_instance') =
                      IF call'.op \in {"Commands", "Executions"}
                      THEN Normalized(hit.ec \o <<".">> \o hit.ea)
                      ELSE IF call'.op \in {"Error", "Help"}
                      THEN Normalized(hit.ec \o <<".">> \o hit.ea \o <<".">> \o hit.el)
                      ELSE TimerActionOf(_instance)
     /\ (ShutdownRuns /\ _instance # <<>>) =>
          /\ \A k \in (Len(Queue(_instance)) + 1)..Len(Queue(_instance')) :
               ReportAction(Queue(_instance')[k]) = <<TimerActionOf(_instance)>>
          /\ \A f \in (Len(temp_files) + 1)..Len(temp_files') :
               \A k \in (Len(Queue(_instance)) + 1)..Len(temp_files'[f].pickled) :
                 ReportAction(temp_files'[f].pickled[k]) = <<TimerActionOf(_instance)>>
    ]_vars

\* Commands, then Installs, then exit: the batch holds the two hits and the
\* latency report, whose action is the one derived from the Commands event
C17_Witness ==
  /\ call.op = "atexit"
  /\ Len(temp_files) = 1
  /\ Len(temp_files[1].pickled) = 3
  /\ ~IsLatencyReport(temp_files[1].pickled[1])
  /\ ~IsLatencyReport(temp_files[1].pickled[2])
  /\ Values(ParseQuery(temp_files[1].pickled[1][3]), K_ec) = <<_GA_COMMANDS_CATEGORY>>
  /\ Values(ParseQuery(temp_files[1].pickled[2][3]), K_ec) = <<_GA_INSTALLS_CATEGORY>>
  /\ ReportAction(temp_files[1].pickled[3]) = <<S_CommaAction>>


(***************************************************************************)
(* Restarting the timer (Spec).                                            *)
(***************************************************************************)
\* C18: after a Started call that succeeds on an enabled process the timer
\* has no checkpoint and the action "unknown", whatever was recorded before,
\* and nothing else of the collector has changed, the queue included.  The
\* latency report of a run of the shutdown path lists the checkpoints of the
\* current timer only, followed by total, under the current action.
C18_RestartTimer ==
  [][/\ (call'.op = "Started" /\ obs'.calls = obs.calls + 1
           /\ ~call'.logged /\ _instance' # <<>>) =>
          /\ _instance'[1]._timer.events = <<>>
          /\ _instance'[1]._timer.action = S_unknown
          /\ Queue(_instance') = Queue(_instance)
          /\ _instance # <<>> =>
               _instance'[1] = [_instance[1] EXCEPT !._timer = _instance'[1]._timer]
     /\ (ShutdownRuns /\ _instance # <<>>) =>
          \A f \in (Len(temp_files) + 1)..Len(temp_files') :
            \A k \in (Len(Queue(_instance)) + 1)..Len(temp_files'[f].pickled) :
              \E report \in {temp_files'[f].pickled[k]} :
              \E pairs \in {RtPairs(report)} :
                /\ ReportAction(report) = <<_instance[1]._timer.action>>
                /\ Len(pairs) = Len(_instance[1]._timer.events) + 1
                /\ \A i \in 1..Len(_instance[1]._timer.events) :
                     StartsWith(pairs[i], _instance[1]._timer.events[i].name \o <<".">>)
                /\ StartsWith(pairs[Len(pairs)], _CSI_TOTAL_EVENT \o <<".">>)
    ]_vars

\* Commands, then Started, then exit: the batch holds the Commands hit, and
\* the latency report has the action unknown
C18_Witness ==
  /\ call.op = "atexit"
  /\ Len(temp_files) = 1
  /\ Len(temp_files[1].pickled) = 2
  /\ ~IsLatencyReport(temp_files[1].pickled[1])
  /\ Values(ParseQuery(temp_files[1].pickled[1][3]), K_ec) = <<_GA_COMMANDS_CATEGORY>>
  /\ ReportAction(temp_files[1].pickled[2]) = <<S_unknown>>
  /\ Len(RtPairs(temp_files[1].pickled[2])) = 1


(***************************************************************************)
(* The handoff under failures (SpecFlush).                                 *)
(***************************************************************************)
\* C19: every reporter process is given a completely serialized file of its
\* own.  A flush changes the queue only by emptying it, and empties it only
\* when it has serialized it, whole and in order, into a new file; a flush
\* that fails before or during the serialization leaves the queue as it was
\* and launches nothing; a flush that fails at the launch has serialized and
\* emptied the queue, and those requests are given to no process, then or
\* later.
C19_AtMostOnceHandoff ==
  /\ [](\A i \in 1..Len(popen) :
          /\ popen[i].metrics_file \in 1..Len(temp_files)
          /\ temp_files[popen[i].metrics_file].complete
          /\ \A k \in 1..Len(popen) :
               popen[i].metrics_file = popen[k].metrics_file => i = k)
  /\ [][(call'.op = "ReportMetrics" /\ obs'.calls = obs.calls + 1) =>
          LET before == Queue(_instance)
              n == Len(temp_files)
              serialized == Len(temp_files') = n + 1 /\ temp_files'[n + 1].complete
          IN  /\ SubSeq(temp_files', 1, n) = temp_files
              /\ Len(temp_files') <= n + 1
              /\ SubSeq(popen', 1, Len(popen)) = popen
              /\ Len(popen') <= Len(popen) + 1
              /\ Queue(_instance') \in {before, <<>>}
              /\ serialized => temp_files'[n + 1].pickled = before /\ before # <<>>
              /\ (before # <<>> /\ Queue(_instance') = <<>>) <=> serialized
              /\ Len(popen') = Len(popen) + 1 =>
                   serialized /\ popen'[Len(popen')].metrics_file = n + 1
              /\ (call'.raised /\ serialized) => popen' = popen]_vars

\* a serialization failed and kept the queue; the next flush serialized the
\* same requests and emptied the queue, but its launch failed: the requests
\* are in a complete file that no process was given
C19_Witness ==
  /\ call.op = "ReportMetrics"
  /\ call.raised
  /\ Len(temp_files) = 2
  /\ ~temp_files[1].complete
  /\ temp_files[2].complete
  /\ Len(temp_files[2].pickled) = 2
  /\ popen = <<>>
  /\ Queue(_instance) = <<>>


(***************************************************************************)
(* The shutdown path and the gate (Spec).                                  *)
(***************************************************************************)
\* C20: a run of the shutdown path constructs no collector and neither reads
\* the inputs of the disable policy nor stores its result; when no collector
\* exists it enqueues nothing, creates no file and launches no process.
\* Whenever a collector exists the memoized gate value is False.
C20_ShutdownNeverConstructs ==
  /\ [](_instance # <<>> => _disabled_cache = False)
  /\ [][ShutdownRuns =>
          /\ obs'.constructed = obs.constructed
          /\ obs'.evals = obs.evals
          /\ ~obs'.consulted
          /\ _disabled_cache' = _disabled_cache
          /\ obs'.cid_io = obs.cid_io
          /\ analytics_cid' = analytics_cid
          /\ _instance = <<>> =>
               /\ _instance' = <<>>
               /\ temp_files' = temp_files
               /\ popen' = popen]_vars

\* an enabled process exited without any recording call: the exit handler
\* ran, the gate was never evaluated and nothing was constructed or written
C20_Witness ==
  /\ exited
  /\ call.op = "atexit"
  /\ obs.calls = 0
  /\ ~CollectionDisabled
  /\ _disabled_cache = None
  /\ _instance = <<>>
  /\ analytics_cid = None
  /\ temp_files = <<>>
  /\ popen = <<>>

====
